---- MODULE Spec2Model ----
(***************************************************************************)
(* Worker orchestration and task distribution of force.ai.                 *)
(*                                                                         *)
(* The SaaS server (saas-platform/server): the tasks and workers tables,   *)
(* TaskManager (in-memory queue, task processor), WorkerManager            *)
(* (connection registry, heartbeats, assignment), the worker socket        *)
(* handlers and the REST routes.  Every `await` of an async function is a  *)
(* point where other handlers may run, so the task processor, an           *)
(* assignTaskToWorker call and a POST /workers/connect request are         *)
(* processes with a program counter; handlers whose interleaving is not    *)
(* examined are one step.                                                  *)
(***************************************************************************)
EXTENDS Integers, Sequences, FiniteSets, TLC

\* ------------------------------------------------------------------ bounds
MaxTasks == 3
MaxWorkers == 2
MaxRetries == 2
MaxCompleted == 2
NumTicks == 2
\* Tasks submitted in the lifecycle specifications.
LifecycleTasks == 2

\* admin-webapp: WebSockets, worker registrations and task objects.
MaxSockets == 2
MaxRegistrations == 2
MaxIssued == 2

\* POST /workers/connect: requests in flight against one connection code,
\* and the largest max_uses a code is created with.
NumRequests == 3
MaxUses == 2

\* The last minute of the clock.
MaxTime == 7

\* The minute the connection code expires at.
CodeLifetime == 2

\* Concurrent TaskManager.retryTask calls.
NumRetryCalls == 2
\* Sockets of one worker that are still open after a later connection of
\* the worker replaced them in connectedWorkers.
MaxStale == 1
\* AdminConnection.maxReconnectAttempts (10 in the code), the reconnect
\* timers pending at a time, and the TASK_ASSIGNMENT messages a worker
\* client receives.
MaxReconnectAttempts == 2
MaxTimers == 1
MaxAssignments == 2
\* Registration tokens the AdminServer generates, and ERROR messages one
\* WebSocket is sent.
MaxTokens == 2
MaxErrors == 2
\* Connection codes generated for the workspace.
MaxCodes == 2
\* The length of a credential key, and of a CREDENTIAL_REQUEST's key list.
MaxKeyLen == 3
MaxRequested == 2
\* CREDENTIAL_RESPONSE messages on their way to the worker.
MaxResponses == 1

TaskIds == 1..MaxTasks
Sockets == 1..MaxSockets
WorkerIds == 1..MaxWorkers
Ticks == 1..NumTicks
Requests == 1..NumRequests
RetryCalls == 1..NumRetryCalls
Assignments == 1..MaxAssignments

\* SQL NULL / JavaScript null, and JavaScript undefined (a property the
\* object does not have).
Null == "null"
Undefined == "undefined"
\* NULL in an id column, a variable holding no object.
NoId == 0
\* A Map without an entry for the key.
NoEntry == -1
\* NULL in a TIMESTAMP column.
NullTime == -1
\* The one workspace (tenant) of the model.
Workspace == "ws1"
\* The caller of WorkerManager.assignTaskToWorker that is not a tick.
Api == 0
Callers == Ticks \cup {Api}
\* Array objects the taskQueue Map and the running ticks can refer to.
ArrayIds == 1..(NumTicks + 1)

Priorities == {"urgent", "high", "normal", "low"}
InFlight == {"assigned", "running"}
Terminal == {"completed", "failed", "cancelled"}
CancelledByUser == "Cancelled by user"
WorkerDisconnected == "Worker disconnected unexpectedly"

\* startPeriodicCleanup: `inactiveThreshold = 5 * 60 * 1000`, in minutes;
\* the callback runs every 60000 ms, the clock's unit.
inactiveThreshold == 5

VARIABLES
    tasks,            \* the tasks table: task id -> row
    workers,          \* the workers table: worker id -> row
    lastSeenOrder,    \* worker ids, most recent last_seen first
    connectedWorkers, \* WorkerManager.connectedWorkers: ids with a socket
    workerHeartbeats, \* WorkerManager.workerHeartbeats: id -> timestamp
    arrays,           \* the queue arrays: array object -> its elements
    taskQueue,        \* TaskManager.taskQueue.get(Workspace): array or NoId
    tick,             \* the task processor callbacks in flight
    assign,           \* the assignTaskToWorker calls in flight
    holding,          \* worker id -> tasks it received and has not reported
    failures,         \* task id -> failed results its workers reported
    now,              \* the clock, in minutes
    lastSweep,        \* the minute of the last periodic cleanup
    connectionCode,   \* the worker_connection_codes row of the one code
    connect,          \* the POST /workers/connect requests in flight
    codes,            \* the connection codes generated since the start
    cancelReq,        \* tasks with a PUT .../cancel request past its check
    retry,            \* the TaskManager.retryTask calls in flight
    remove,           \* the DELETE /workers/:id requests: worker id -> pc
    complete,         \* the task_complete handlers in flight, by worker
    sockets,          \* worker id -> its open sockets the Map does not hold
    registry,         \* admin-webapp WorkerManager.workers: id -> worker
    connections,      \* admin-webapp WorkerManager.connections: ws -> id
    openSockets,      \* admin-webapp: the WebSockets that are open
    issued,           \* admin-webapp: task objects created so far
    currentToken,     \* AdminServer.currentToken: its generation number
    tokenExpired,     \* whether Date.now() > AdminServer.tokenExpiry
    errorsSent,       \* admin-webapp: ws -> ERROR messages sent to it
    credentials,      \* CredentialStore.credentials: key -> value
    credentialResponse, \* the CREDENTIAL_RESPONSE messages on their way
    credentialPromise, \* the worker's AdminConnection.requestCredentials call
    adminConnection,  \* the worker client's AdminConnection object
    workerStatus,     \* WorkerApp.workerStatus: status and currentTask
    taskCompleteSent  \* task id -> TASK_COMPLETE messages the client sent

\* The state of the SaaS server, and of the admin-webapp server.
saasVars == <<tasks, workers, lastSeenOrder, connectedWorkers,
              workerHeartbeats, arrays, taskQueue, tick, assign, holding,
              failures, now, lastSweep>>
timeVars == <<now, lastSweep>>
adminVars == <<registry, connections, openSockets, issued>>
regVars == <<connectionCode, connect, codes>>
callVars == <<cancelReq, retry, remove, complete, sockets>>

\* The admin-webapp's AdminServer and MessageRouter beside the registry.
tokenVars == <<currentToken, tokenExpired>>
credVars == <<credentials, credentialResponse, credentialPromise>>
\* The worker client: its AdminConnection and the WorkerApp around it.
clientVars == <<adminConnection, workerStatus, taskCompleteSent>>
serverVars == <<tokenVars, errorsSent, credVars, clientVars>>

vars == <<saasVars, adminVars, regVars, callVars, serverVars>>

\* ------------------------------------------------------------------ rows
\* INSERT INTO tasks: status, retry_count and the nullable columns take the
\* schema's defaults.
NewTask(priority, max_retries) ==
    [status |-> "pending", priority |-> priority, assigned_worker_id |-> NoId,
     result |-> Null, error_message |-> Null, retry_count |-> 0,
     max_retries |-> max_retries]

\* INSERT INTO workers ... 'offline' of POST /workers/connect.
NewWorker ==
    [status |-> "offline", total_tasks_completed |-> 0,
     last_heartbeat |-> NullTime]

\* No queued object.
NoTask == [id |-> NoId, priority |-> "normal", workspace_id |-> Undefined]

IdleTick == [pc |-> "idle", queue |-> NoId, n |-> 0, assignedCount |-> 0,
             task |-> NoTask]
IdleAssign == [pc |-> "idle", task |-> NoTask, selected |-> NoId]
IdleRetry == [pc |-> "idle", task |-> NoId]
IdleComplete == [pc |-> "idle", status |-> Null, worker |-> NoId]
\* A worker whose only open socket, if any, is the one connectedWorkers
\* holds: no socket a later connection replaced in the Map is still open
\* (stale), and its latest socket has not lost its Map entry (unlisted).
NoSockets == [stale |-> 0, unlisted |-> FALSE]

\* The row createTask and retryTask hand to addTaskToQueue: their RETURNING
\* / SELECT lists hold id and priority and no workspace_id.
QueuedTask(t) ==
    [id |-> t, priority |-> tasks[t].priority, workspace_id |-> Undefined]

\* A complete row of the tasks table, as a caller of assignTaskToWorker
\* that read it from the table passes it.
TaskRow(t) ==
    [id |-> t, priority |-> tasks[t].priority, workspace_id |-> Workspace]

\* ------------------------------------------------------------------ queue
\* TaskManager.addTaskToQueue: const priorityOrder = {urgent: 0, ...}
priorityOrder(priority) ==
    CASE priority = "urgent" -> 0
      [] priority = "high" -> 1
      [] priority = "normal" -> 2
      [] priority = "low" -> 3

\* JavaScript's `value || 2`: 0 is falsy, so the table's 0 becomes 2.
OrDefault(value) == IF value = 0 THEN 2 ELSE value

\* `priorityOrder[task.priority] || 2`
queuePriority(priority) == OrDefault(priorityOrder(priority))

\* The loop of addTaskToQueue: the 0-based index of the first queued task
\* whose number is greater than the new task's, else queue.length.
insertIndex(queue, task) ==
    LET later == {i \in 1..Len(queue) :
                    queuePriority(task.priority) < queuePriority(queue[i].priority)}
    IN IF later = {} THEN Len(queue)
       ELSE (CHOOSE i \in later : \A j \in later : i <= j) - 1

\* queue.splice(index, 0, task)
splice(queue, index, task) ==
    SubSeq(queue, 1, index) \o <<task>> \o SubSeq(queue, index + 1, Len(queue))

\* queue.splice(index, 1), index 0-based
removeAt(queue, index) ==
    SubSeq(queue, 1, index) \o SubSeq(queue, index + 2, Len(queue))

\* queue.findIndex(t => t.id === taskId), 0-based, -1 when absent
findIndex(queue, taskId) ==
    LET hits == {i \in 1..Len(queue) : queue[i].id = taskId}
    IN IF hits = {} THEN -1
       ELSE (CHOOSE i \in hits : \A j \in hits : i <= j) - 1

\* The array objects still referred to: by the Map and by running ticks.
Referenced(tq, tk) ==
    ({tq} \cup {tk[i].queue : i \in Ticks}) \ {NoId}

\* Arrays nothing refers to are garbage: they read as empty.
Collect(arr, tq, tk) ==
    [a \in ArrayIds |-> IF a \in Referenced(tq, tk) THEN arr[a] ELSE <<>>]

\* `new Array` of addTaskToQueue when the Map has no entry.
FreshArray ==
    CHOOSE a \in ArrayIds \ Referenced(taskQueue, tick) :
        \A b \in ArrayIds \ Referenced(taskQueue, tick) : a <= b

\* TaskManager.addTaskToQueue(workspaceId, task): sets arrays' and taskQueue'.
addTaskToQueue(task) ==
    IF taskQueue = NoId
    THEN /\ taskQueue' = FreshArray
         /\ arrays' = [arrays EXCEPT ![FreshArray] = <<task>>]
    ELSE /\ taskQueue' = taskQueue
         /\ arrays' = [arrays EXCEPT ![taskQueue] =
                          splice(@, insertIndex(@, task), task)]

\* ------------------------------------------------------------------ workers
\* The position of worker w in lastSeenOrder (1 = most recently seen).
Recency(w) == CHOOSE i \in 1..Len(lastSeenOrder) : lastSeenOrder[i] = w

\* last_seen = NOW(): w becomes the most recently seen worker.
Touch(order, w) == <<w>> \o SelectSeq(order, LAMBDA x : x # w)

\* WorkerManager.getAvailableWorkers(workspaceId): the rows with that
\* workspace_id and status 'online'.  An undefined parameter is sent as
\* NULL, and `workspace_id = NULL` selects no row.
getAvailableWorkers(workspaceId) ==
    IF workspaceId = Workspace
    THEN {w \in DOMAIN workers : workers[w].status = "online"}
    ELSE {}

\* availableWorkers[0] as it would be under ORDER BY total_tasks_completed
\* ASC, last_seen ASC: among equals, the worker seen longest ago.
selectedLongestIdle(available) ==
    CHOOSE w \in available : \A v \in available :
        \/ workers[w].total_tasks_completed < workers[v].total_tasks_completed
        \/ /\ workers[w].total_tasks_completed = workers[v].total_tasks_completed
           /\ Recency(w) >= Recency(v)

\* availableWorkers[0] under ORDER BY total_tasks_completed ASC, last_seen DESC
selectedWorker(available) ==
    CHOOSE w \in available : \A v \in available :
        \/ workers[w].total_tasks_completed < workers[v].total_tasks_completed
        \/ /\ workers[w].total_tasks_completed = workers[v].total_tasks_completed
           /\ Recency(w) <= Recency(v)

\* ------------------------------------------------------------------ TaskManager
\* TaskManager.createTask: INSERT the row, then addTaskToQueue.
createTask(priority, max_retries) ==
    /\ DOMAIN tasks # TaskIds
    /\ LET t == CHOOSE x \in TaskIds \ DOMAIN tasks :
                    \A y \in TaskIds \ DOMAIN tasks : x <= y
       IN /\ tasks' = tasks @@ (t :> NewTask(priority, max_retries))
          /\ addTaskToQueue([id |-> t, priority |-> priority,
                             workspace_id |-> Undefined])
    /\ UNCHANGED <<workers, lastSeenOrder, connectedWorkers, workerHeartbeats,
                   tick, assign, holding,
                   failures, timeVars, adminVars, regVars, callVars,
                   serverVars>>

\* The two UPDATE workers of completeTask, for the row's assigned_worker_id.
workerAfterComplete(w, status) ==
    IF status = "completed"
    THEN [workers[w] EXCEPT !.status = "online",
                            !.total_tasks_completed = @ + 1]
    ELSE [workers[w] EXCEPT !.status = "online"]

\* TaskManager.completeTask(taskId, {status, result, error_message}).
completeTask(t, status, result, error_message) ==
    /\ t \in DOMAIN tasks
    /\ tasks' = [tasks EXCEPT ![t].status = status,
                              ![t].result = result,
                              ![t].error_message = error_message]
    /\ LET w == tasks[t].assigned_worker_id
       IN IF w # NoId /\ w \in DOMAIN workers
          THEN /\ status = "completed" =>
                     workers[w].total_tasks_completed < MaxCompleted
               /\ workers' = [workers EXCEPT ![w] = workerAfterComplete(w, status)]
          ELSE workers' = workers

\* TaskManager.retryTask(taskId).
retryTask(t) ==
    /\ t \in DOMAIN tasks
    /\ tasks[t].retry_count < tasks[t].max_retries
    /\ tasks' = [tasks EXCEPT ![t].status = "pending",
                              ![t].assigned_worker_id = NoId,
                              ![t].result = Null,
                              ![t].error_message = Null,
                              ![t].retry_count = @ + 1]
    /\ addTaskToQueue(QueuedTask(t))
    /\ UNCHANGED <<workers, lastSeenOrder, connectedWorkers, workerHeartbeats,
                   tick, assign, holding,
                   failures, timeVars, adminVars, regVars, callVars,
                   serverVars>>

\* TaskManager.cancelTask(taskId): the conditional UPDATE, the worker back
\* to online, the task out of the queue the Map holds.
cancelTask(t) ==
    /\ t \in DOMAIN tasks
    /\ tasks[t].status \in {"pending", "assigned"}
    /\ tasks' = [tasks EXCEPT ![t].status = "cancelled",
                              ![t].error_message = CancelledByUser]
    /\ LET w == tasks[t].assigned_worker_id
       IN IF w # NoId /\ w \in DOMAIN workers
          THEN workers' = [workers EXCEPT ![w].status = "online"]
          ELSE workers' = workers
    /\ IF taskQueue # NoId /\ findIndex(arrays[taskQueue], t) # -1
       THEN arrays' = [arrays EXCEPT ![taskQueue] = removeAt(@, findIndex(@, t))]
       ELSE arrays' = arrays
    /\ UNCHANGED <<lastSeenOrder, connectedWorkers, workerHeartbeats,
                   taskQueue, tick, assign, holding,
                   failures, timeVars, adminVars, regVars, callVars,
                   serverVars>>

\* PUT /tasks/:workspaceId/:taskId/cancel (routes/tasks.js).
putTaskCancel(t) ==
    /\ t \in DOMAIN tasks
    /\ tasks[t].status \in {"pending", "assigned", "running"}
    /\ tasks' = [tasks EXCEPT ![t].status = "cancelled",
                              ![t].error_message = CancelledByUser]
    /\ UNCHANGED <<workers, lastSeenOrder, connectedWorkers, workerHeartbeats,
                   arrays, taskQueue, tick, assign, holding,
                   failures, timeVars, adminVars, regVars, callVars,
                   serverVars>>

\* ------------------------------------------------------------------ WorkerManager
\* WorkerManager.setWorkerOnline(workerId, socket), on a socket connection.
setWorkerOnline(w) ==
    /\ w \in DOMAIN workers
    /\ w \notin connectedWorkers
    /\ connectedWorkers' = connectedWorkers \cup {w}
    /\ workerHeartbeats' = [workerHeartbeats EXCEPT ![w] = now]
    /\ workers' = [workers EXCEPT ![w].status = "online",
                                  ![w].last_heartbeat = now]
    /\ lastSeenOrder' = Touch(lastSeenOrder, w)
    /\ UNCHANGED <<tasks, arrays, taskQueue, tick, assign, holding,
                   failures, timeVars, adminVars, regVars, callVars,
                   serverVars>>

\* WorkerManager.cancelWorkerTasks(workerId): the tasks table afterwards.
cancelWorkerTasks(w) ==
    [t \in DOMAIN tasks |->
        IF tasks[t].assigned_worker_id = w /\ tasks[t].status \in InFlight
        THEN [tasks[t] EXCEPT !.status = "failed",
                              !.error_message = WorkerDisconnected]
        ELSE tasks[t]]

\* WorkerManager.setWorkerOffline(workerId), on the socket's disconnect.
setWorkerOffline(w) ==
    /\ w \in connectedWorkers
    /\ connectedWorkers' = connectedWorkers \ {w}
    /\ workerHeartbeats' = [workerHeartbeats EXCEPT ![w] = NoEntry]
    /\ workers' = IF w \in DOMAIN workers
                  THEN [workers EXCEPT ![w].status = "offline"]
                  ELSE workers
    /\ lastSeenOrder' = Touch(lastSeenOrder, w)
    /\ tasks' = cancelWorkerTasks(w)
    /\ UNCHANGED <<arrays, taskQueue, tick, assign, holding,
                   failures, timeVars, adminVars, regVars, callVars,
                   serverVars>>

\* workerNamespace.on('connection') for a worker that has a socket open:
\* setWorkerOnline(workerId, socket) replaces the Map's socket, which stays
\* open until its disconnect is processed.
reconnect(w) ==
    /\ w \in DOMAIN workers
    /\ w \in connectedWorkers \/ sockets[w].unlisted
    /\ sockets[w].stale < MaxStale
    /\ sockets' = [sockets EXCEPT ![w] = [stale |-> @.stale + 1,
                                          unlisted |-> FALSE]]
    /\ connectedWorkers' = connectedWorkers \cup {w}
    /\ workerHeartbeats' = [workerHeartbeats EXCEPT ![w] = now]
    /\ workers' = [workers EXCEPT ![w].status = "online",
                                  ![w].last_heartbeat = now]
    /\ lastSeenOrder' = Touch(lastSeenOrder, w)
    /\ UNCHANGED <<tasks, arrays, taskQueue, tick, assign, holding,
                   failures, timeVars, adminVars, regVars, cancelReq, retry,
                   remove, complete, serverVars>>

\* What setWorkerOffline(socket.workerId) does whichever socket of the
\* worker disconnected: the Map entries of the worker id are deleted, the
\* row is set offline, the worker's tasks in flight are failed.
workerOffline(w) ==
    /\ connectedWorkers' = connectedWorkers \ {w}
    /\ workerHeartbeats' = [workerHeartbeats EXCEPT ![w] = NoEntry]
    /\ workers' = IF w \in DOMAIN workers
                  THEN [workers EXCEPT ![w].status = "offline"]
                  ELSE workers
    /\ lastSeenOrder' = Touch(lastSeenOrder, w)
    /\ tasks' = cancelWorkerTasks(w)
    /\ UNCHANGED <<arrays, taskQueue, tick, assign, holding,
                   failures, timeVars, adminVars, regVars, cancelReq, retry,
                   remove, complete, serverVars>>

\* socket.on('disconnect') of a socket that a later connection replaced:
\* setWorkerOffline(socket.workerId); the worker's latest socket, if it
\* is open, is left without a Map entry.
staleDisconnect(w) ==
    /\ sockets[w].stale > 0
    /\ sockets' = [sockets EXCEPT ![w] =
                       [stale |-> @.stale - 1,
                        unlisted |-> @.unlisted \/ w \in connectedWorkers]]
    /\ workerOffline(w)

\* socket.on('disconnect') of a worker's latest socket after it lost its
\* Map entry.
unlistedDisconnect(w) ==
    /\ sockets[w].unlisted
    /\ sockets' = [sockets EXCEPT ![w].unlisted = FALSE]
    /\ workerOffline(w)

\* socket.on('status_update'): WorkerManager.updateWorkerStatus(workerId, status).
updateWorkerStatus(w, status) ==
    /\ w \in connectedWorkers
    /\ workerHeartbeats' = [workerHeartbeats EXCEPT ![w] = now]
    /\ workers' = IF w \in DOMAIN workers
                  THEN [workers EXCEPT ![w].status = status,
                                       ![w].last_heartbeat = now]
                  ELSE workers
    /\ lastSeenOrder' = Touch(lastSeenOrder, w)
    /\ UNCHANGED <<tasks, connectedWorkers, arrays, taskQueue, tick, assign,
                   holding, failures, timeVars, adminVars, regVars, callVars,
                   serverVars>>

\* socket.on('task_complete') from worker w for a task it holds.
task_complete(w, t, status) ==
    /\ w \in connectedWorkers
    /\ t \in holding[w]
    /\ IF status = "completed"
       THEN completeTask(t, "completed", "ok", Null)
       ELSE completeTask(t, "failed", Null, "error")
    /\ holding' = [holding EXCEPT ![w] = @ \ {t}]
    /\ failures' = IF status = "failed"
                   THEN [failures EXCEPT ![t] = @ + 1]
                   ELSE failures
    /\ UNCHANGED <<lastSeenOrder, connectedWorkers, workerHeartbeats, arrays,
                   taskQueue, tick, assign, timeVars, adminVars, regVars, callVars,
                   serverVars>>

\* The same task_complete delivered again: the payload the row already
\* records, from the worker the row names.
task_complete_again(w, t) ==
    /\ w \in connectedWorkers
    /\ t \in DOMAIN tasks
    /\ tasks[t].assigned_worker_id = w
    /\ t \notin holding[w]
    /\ tasks[t].status \in {"completed", "failed"}
    /\ tasks[t].error_message \in {Null, "error"}
    /\ IF tasks[t].status = "completed"
       THEN completeTask(t, "completed", "ok", Null)
       ELSE completeTask(t, "failed", Null, "error")
    /\ UNCHANGED <<lastSeenOrder, connectedWorkers, workerHeartbeats, arrays,
                   taskQueue, tick, assign, holding,
                   failures, timeVars, adminVars, regVars, callVars,
                   serverVars>>

\* ------------------------------------------------------------------ assignTaskToWorker
\* WorkerManager.assignTaskToWorker(task), first await: getAvailableWorkers
\* for task.workspace_id; no worker: return null.
AssignQuery(c) ==
    /\ assign[c].pc = "query"
    /\ LET available == getAvailableWorkers(assign[c].task.workspace_id)
       IN IF available = {}
          THEN assign' = [assign EXCEPT ![c].pc = "return", ![c].selected = NoId]
          ELSE assign' = [assign EXCEPT ![c].pc = "updateTask",
                                        ![c].selected = selectedWorker(available)]
    /\ UNCHANGED <<tasks, workers, lastSeenOrder, connectedWorkers,
                   workerHeartbeats, arrays, taskQueue, tick, holding,
                   failures, timeVars, adminVars, regVars, callVars,
                   serverVars>>

\* The row after UPDATE tasks SET assigned_worker_id = $1, status = 'assigned'
\* WHERE id = $3.
assignedRow(row, w) ==
    [row EXCEPT !.assigned_worker_id = w, !.status = "assigned"]

\* Second await: the UPDATE of the task.  assigned_worker_id REFERENCES
\* workers(id): when the selected worker's row is gone the UPDATE throws,
\* and the catch returns null.
AssignUpdateTask(c) ==
    /\ assign[c].pc = "updateTask"
    /\ IF assign[c].selected \in DOMAIN workers
       THEN /\ tasks' = [tasks EXCEPT ![assign[c].task.id] =
                            assignedRow(@, assign[c].selected)]
            /\ assign' = [assign EXCEPT ![c].pc = "updateWorker"]
       ELSE /\ tasks' = tasks
            /\ assign' = [assign EXCEPT ![c].pc = "return",
                                        ![c].selected = NoId]
    /\ UNCHANGED <<workers, lastSeenOrder, connectedWorkers, workerHeartbeats,
                   arrays, taskQueue, tick, holding,
                   failures, timeVars, adminVars, regVars, callVars,
                   serverVars>>

\* Third await: UPDATE workers SET status = 'busy'; then the task_assigned
\* emit when the worker has a socket, and the return of the worker.
AssignUpdateWorker(c) ==
    /\ assign[c].pc = "updateWorker"
    /\ LET w == assign[c].selected
       IN /\ workers' = IF w \in DOMAIN workers
                        THEN [workers EXCEPT ![w].status = "busy"]
                        ELSE workers
          /\ holding' = IF w \in connectedWorkers
                        THEN [holding EXCEPT ![w] = @ \cup {assign[c].task.id}]
                        ELSE holding
    /\ assign' = [assign EXCEPT ![c].pc = "return"]
    /\ UNCHANGED <<tasks, lastSeenOrder, connectedWorkers, workerHeartbeats,
                   arrays, taskQueue, tick,
                   failures, timeVars, adminVars, regVars, callVars,
                   serverVars>>

\* A caller other than the task processor calls assignTaskToWorker with the
\* complete row of a task it has read as pending.
ApiAssign(t) ==
    /\ assign[Api].pc = "idle"
    /\ t \in DOMAIN tasks
    /\ tasks[t].status = "pending"
    /\ assign' = [assign EXCEPT ![Api] =
                     [pc |-> "query", task |-> TaskRow(t), selected |-> NoId]]
    /\ UNCHANGED <<tasks, workers, lastSeenOrder, connectedWorkers,
                   workerHeartbeats, arrays, taskQueue, tick, holding,
                   failures, timeVars, adminVars, regVars, callVars,
                   serverVars>>

ApiReturn ==
    /\ assign[Api].pc = "return"
    /\ assign' = [assign EXCEPT ![Api] = IdleAssign]
    /\ UNCHANGED <<tasks, workers, lastSeenOrder, connectedWorkers,
                   workerHeartbeats, arrays, taskQueue, tick, holding,
                   failures, timeVars, adminVars, regVars, callVars,
                   serverVars>>

\* ------------------------------------------------------------------ task processor
\* The end of a workspace's iteration: `if (queue.length === 0)
\* this.taskQueue.delete(workspaceId)`, and the callback returns.
TickCleanup(i, arr) ==
    LET tq == IF Len(arr[tick[i].queue]) = 0 THEN NoId ELSE taskQueue
        tk == [tick EXCEPT ![i] = IdleTick]
    IN /\ taskQueue' = tq
       /\ tick' = tk
       /\ arrays' = Collect(arr, tq, tk)

\* `while (queue.length > 0 && assignedCount < availableWorkers.length)`:
\* shift the head and await the pending check, or leave the loop.
TickWhile(i, arr, n, count) ==
    LET q == tick[i].queue
    IN IF Len(arr[q]) > 0 /\ count < n
       THEN /\ tick' = [tick EXCEPT ![i].pc = "check",
                                    ![i].n = n,
                                    ![i].assignedCount = count,
                                    ![i].task = Head(arr[q])]
            /\ arrays' = [arr EXCEPT ![q] = Tail(@)]
            /\ taskQueue' = taskQueue
       ELSE TickCleanup(i, arr)

\* The setInterval callback starts: the Map has an entry whose queue is not
\* empty, and the callback awaits getAvailableWorkers(workspaceId).
TickStart(i) ==
    /\ tick[i].pc = "idle"
    /\ taskQueue # NoId
    /\ Len(arrays[taskQueue]) > 0
    /\ tick' = [tick EXCEPT ![i].pc = "workers", ![i].queue = taskQueue]
    /\ UNCHANGED <<tasks, workers, lastSeenOrder, connectedWorkers,
                   workerHeartbeats, arrays, taskQueue, assign, holding,
                   failures, timeVars, adminVars, regVars, callVars,
                   serverVars>>

\* getAvailableWorkers returned: no worker, `continue`; else enter the loop.
TickWorkers(i) ==
    /\ tick[i].pc = "workers"
    /\ LET n == Cardinality(getAvailableWorkers(Workspace))
       IN IF n = 0
          THEN /\ tick' = [tick EXCEPT ![i] = IdleTick]
               /\ arrays' = Collect(arrays, taskQueue, tick')
               /\ taskQueue' = taskQueue
          ELSE TickWhile(i, arrays, n, 0)
    /\ UNCHANGED <<tasks, workers, lastSeenOrder, connectedWorkers,
                   workerHeartbeats, assign, holding,
                   failures, timeVars, adminVars, regVars, callVars,
                   serverVars>>

\* The pending check returned.  No row: `continue`.  A row: call
\* assignTaskToWorker(task) with the queued object.
TickCheck(i) ==
    /\ tick[i].pc = "check"
    /\ IF tasks[tick[i].task.id].status # "pending"
       THEN /\ TickWhile(i, arrays, tick[i].n, tick[i].assignedCount)
            /\ assign' = assign
       ELSE /\ tick' = [tick EXCEPT ![i].pc = "assign"]
            /\ assign' = [assign EXCEPT ![i] =
                             [pc |-> "query", task |-> tick[i].task,
                              selected |-> NoId]]
            /\ UNCHANGED <<arrays, taskQueue, serverVars>>
    /\ UNCHANGED <<tasks, workers, lastSeenOrder, connectedWorkers,
                   workerHeartbeats, holding,
                   failures, timeVars, adminVars, regVars, callVars,
                   serverVars>>

\* assignTaskToWorker returned: a worker, count it and go on; null,
\* `queue.unshift(task); break`.
TickAssigned(i) ==
    /\ tick[i].pc = "assign"
    /\ assign[i].pc = "return"
    /\ assign' = [assign EXCEPT ![i] = IdleAssign]
    /\ IF assign[i].selected # NoId
       THEN TickWhile(i, arrays, tick[i].n, tick[i].assignedCount + 1)
       ELSE TickCleanup(i, [arrays EXCEPT ![tick[i].queue] =
                                <<tick[i].task>> \o @])
    /\ UNCHANGED <<tasks, workers, lastSeenOrder, connectedWorkers,
                   workerHeartbeats, holding,
                   failures, timeVars, adminVars, regVars, callVars,
                   serverVars>>

\* The pending check rejects (the store is unreachable or the query times
\* out): the throw leaves the loops for the callback's catch, which logs the
\* error; the shifted task is in no array.
TickCheckError(i) ==
    /\ tick[i].pc = "check"
    /\ tick' = [tick EXCEPT ![i] = IdleTick]
    /\ arrays' = Collect(arrays, taskQueue, tick')
    /\ UNCHANGED <<tasks, workers, lastSeenOrder, connectedWorkers,
                   workerHeartbeats, taskQueue, assign, holding,
                   failures, timeVars, adminVars, regVars, callVars,
                   serverVars>>

\* ------------------------------------------------------------------ REST routes and concurrent calls
\* PUT /workers/:id/status (routes/workers.js): the worker's own request,
\* any of the four statuses, written as sent.
putWorkerStatus(w, status) ==
    /\ w \in DOMAIN workers
    /\ workers' = [workers EXCEPT ![w].status = status,
                                  ![w].last_heartbeat = now]
    /\ lastSeenOrder' = Touch(lastSeenOrder, w)
    /\ UNCHANGED <<tasks, connectedWorkers, workerHeartbeats, arrays,
                   taskQueue, tick, assign, holding, failures, timeVars,
                   adminVars, regVars, callVars, serverVars>>

\* POST /workers/:id/heartbeat (routes/workers.js), behind
\* authenticateWorker: UPDATE workers SET last_seen = NOW(), last_heartbeat
\* = NOW(), and the pending tasks in the response.
postHeartbeat(w) ==
    /\ w \in DOMAIN workers
    /\ workers' = [workers EXCEPT ![w].last_heartbeat = now]
    /\ lastSeenOrder' = Touch(lastSeenOrder, w)
    /\ UNCHANGED <<tasks, connectedWorkers, workerHeartbeats, arrays,
                   taskQueue, tick, assign, holding, failures, timeVars,
                   adminVars, regVars, callVars, serverVars>>

\* POST /tasks/:workspaceId (routes/tasks.js): INSERT the row; the route
\* does not call addTaskToQueue.
postTask(priority, max_retries) ==
    /\ DOMAIN tasks # TaskIds
    /\ LET t == CHOOSE x \in TaskIds \ DOMAIN tasks :
                    \A y \in TaskIds \ DOMAIN tasks : x <= y
       IN tasks' = tasks @@ (t :> NewTask(priority, max_retries))
    /\ UNCHANGED <<workers, lastSeenOrder, connectedWorkers, workerHeartbeats,
                   arrays, taskQueue, tick, assign, holding, failures,
                   timeVars, adminVars, regVars, callVars, serverVars>>

\* socket.on('task_complete') from worker w naming a task that is not
\* assigned to it: the handler passes taskResult.taskId to completeTask.
task_complete_other(w, t, status) ==
    /\ w \in connectedWorkers
    /\ t \in DOMAIN tasks
    /\ t \notin holding[w]
    /\ tasks[t].assigned_worker_id # w
    /\ IF status = "completed"
       THEN completeTask(t, "completed", "ok", Null)
       ELSE completeTask(t, "failed", Null, "error")
    /\ UNCHANGED <<lastSeenOrder, connectedWorkers, workerHeartbeats, arrays,
                   taskQueue, tick, assign, holding, failures, timeVars,
                   adminVars, regVars, callVars, serverVars>>

\* PUT .../cancel, first await: the SELECT of the task and the check of its
\* status against ['pending', 'assigned', 'running'].
PutCancelSelect(t) ==
    /\ t \in DOMAIN tasks
    /\ t \notin cancelReq
    /\ tasks[t].status \in {"pending", "assigned", "running"}
    /\ cancelReq' = cancelReq \cup {t}
    /\ UNCHANGED <<saasVars, adminVars, regVars, retry, remove, serverVars, complete, sockets>>

\* PUT .../cancel, second await: UPDATE tasks SET status = 'cancelled'
\* WHERE id = $1.
PutCancelUpdate(t) ==
    /\ t \in cancelReq
    /\ cancelReq' = cancelReq \ {t}
    /\ tasks' = [tasks EXCEPT ![t].status = "cancelled",
                              ![t].error_message = CancelledByUser]
    /\ UNCHANGED <<workers, lastSeenOrder, connectedWorkers, workerHeartbeats,
                   arrays, taskQueue, tick, assign, holding, failures,
                   timeVars, adminVars, regVars, retry, remove, serverVars,
                   complete, sockets>>

\* retryTask(taskId), first await: the SELECT of retry_count and
\* max_retries; `retry_count >= max_retries` throws.
RetrySelect(c, t) ==
    /\ retry[c].pc = "idle"
    /\ t \in DOMAIN tasks
    /\ tasks[t].retry_count < tasks[t].max_retries
    /\ retry' = [retry EXCEPT ![c] = [pc |-> "update", task |-> t]]
    /\ UNCHANGED <<saasVars, adminVars, regVars, cancelReq, remove, serverVars,
                   complete, sockets>>

\* retryTask, second await: UPDATE tasks SET status = 'pending', ...,
\* retry_count = retry_count + 1 WHERE id = $1.
RetryUpdate(c) ==
    /\ retry[c].pc = "update"
    /\ tasks' = [tasks EXCEPT ![retry[c].task].status = "pending",
                              ![retry[c].task].assigned_worker_id = NoId,
                              ![retry[c].task].result = Null,
                              ![retry[c].task].error_message = Null,
                              ![retry[c].task].retry_count = @ + 1]
    /\ retry' = [retry EXCEPT ![c].pc = "enqueue"]
    /\ UNCHANGED <<workers, lastSeenOrder, connectedWorkers, workerHeartbeats,
                   arrays, taskQueue, tick, assign, holding, failures,
                   timeVars, adminVars, regVars, cancelReq, remove,
                   serverVars, complete, sockets>>

\* retryTask, third await: the SELECT of the row, then addTaskToQueue.
RetryEnqueue(c) ==
    /\ retry[c].pc = "enqueue"
    /\ addTaskToQueue(QueuedTask(retry[c].task))
    /\ retry' = [retry EXCEPT ![c] = IdleRetry]
    /\ UNCHANGED <<tasks, workers, lastSeenOrder, connectedWorkers,
                   workerHeartbeats, tick, assign, holding, failures,
                   timeVars, adminVars, regVars, cancelReq, remove,
                   serverVars, complete, sockets>>

\* socket.on('task_complete') from worker w, an async handler: the message
\* arrives and TaskManager.completeTask runs up to its first await, the
\* UPDATE tasks ... RETURNING assigned_worker_id.
CompleteUpdateTask(w, t, status) ==
    /\ w \in connectedWorkers
    /\ t \in holding[w]
    /\ complete[w].pc = "idle"
    /\ tasks' = [tasks EXCEPT
                    ![t].status = status,
                    ![t].result = IF status = "completed" THEN "ok" ELSE Null,
                    ![t].error_message =
                        IF status = "completed" THEN Null ELSE "error"]
    /\ holding' = [holding EXCEPT ![w] = @ \ {t}]
    /\ failures' = IF status = "failed"
                   THEN [failures EXCEPT ![t] = @ + 1]
                   ELSE failures
    /\ complete' = [complete EXCEPT ![w] =
                       [pc |-> "worker", status |-> status,
                        worker |-> tasks[t].assigned_worker_id]]
    /\ UNCHANGED <<workers, lastSeenOrder, connectedWorkers, workerHeartbeats,
                   arrays, taskQueue, tick, assign, timeVars, adminVars,
                   regVars, cancelReq, retry, remove, serverVars, sockets>>

\* The handler resumes: completeTask's UPDATE workers SET status = 'online'
\* for the row's assigned worker.
CompleteUpdateWorker(w) ==
    /\ complete[w].pc = "worker"
    /\ LET a == complete[w].worker
       IN IF a # NoId /\ a \in DOMAIN workers
          THEN /\ complete[w].status = "completed" =>
                     workers[a].total_tasks_completed < MaxCompleted
               /\ workers' = [workers EXCEPT
                                 ![a] = workerAfterComplete(a, complete[w].status)]
          ELSE workers' = workers
    /\ complete' = [complete EXCEPT ![w] = IdleComplete]
    /\ UNCHANGED <<tasks, lastSeenOrder, connectedWorkers, workerHeartbeats,
                   arrays, taskQueue, tick, assign, holding, failures,
                   timeVars, adminVars, regVars, cancelReq, retry, remove,
                   serverVars, sockets>>

\* DELETE /workers/:id (routes/workers.js), behind authenticateWorker, which
\* answers 401 when the worker's row is gone.  First await: UPDATE tasks SET
\* status = 'cancelled', error_message = 'Worker disconnected' for the
\* worker's assigned and running tasks.
deleteWorkerCancel(w) ==
    /\ w \in DOMAIN workers
    /\ remove[w] = "idle"
    /\ tasks' = [t \in DOMAIN tasks |->
                    IF tasks[t].assigned_worker_id = w
                       /\ tasks[t].status \in InFlight
                    THEN [tasks[t] EXCEPT !.status = "cancelled",
                                          !.error_message = WorkerDisconnected]
                    ELSE tasks[t]]
    /\ remove' = [remove EXCEPT ![w] = "delete"]
    /\ UNCHANGED <<workers, lastSeenOrder, connectedWorkers, workerHeartbeats,
                   arrays, taskQueue, tick, assign, holding, failures,
                   timeVars, adminVars, regVars, cancelReq, retry,
                   serverVars, complete, sockets>>

\* The tasks whose assigned_worker_id REFERENCES workers(id) is w
\* (database/schema.sql).
referencing(w) ==
    {t \in DOMAIN tasks : tasks[t].assigned_worker_id = w}

\* The DELETE as it would run on a tasks table without the foreign key: the
\* row goes whatever references it.
deleteWorkerUnchecked(w) ==
    /\ remove[w] = "delete"
    /\ workers' = [v \in DOMAIN workers \ {w} |-> workers[v]]
    /\ remove' = [remove EXCEPT ![w] = "removed"]
    /\ UNCHANGED <<tasks, lastSeenOrder, connectedWorkers, workerHeartbeats,
                   arrays, taskQueue, tick, assign, holding, failures,
                   timeVars, adminVars, regVars, cancelReq, retry,
                   serverVars, complete, sockets>>

\* Second await: DELETE FROM workers WHERE id = $1.  The foreign key of
\* tasks.assigned_worker_id has no ON DELETE action, so the DELETE throws
\* while a task references the row and the route answers 500; otherwise
\* the row is deleted and the route answers that the worker was removed.
deleteWorkerDelete(w) ==
    /\ remove[w] = "delete"
    /\ IF referencing(w) # {} \/ w \notin DOMAIN workers
       THEN /\ workers' = workers
            /\ remove' = [remove EXCEPT ![w] = "failed"]
       ELSE /\ workers' = [v \in DOMAIN workers \ {w} |-> workers[v]]
            /\ remove' = [remove EXCEPT ![w] = "removed"]
    /\ UNCHANGED <<tasks, lastSeenOrder, connectedWorkers, workerHeartbeats,
                   arrays, taskQueue, tick, assign, holding, failures,
                   timeVars, adminVars, regVars, cancelReq, retry,
                   serverVars, complete, sockets>>

\* ------------------------------------------------------------------ periodic cleanup
\* A minute passes.  The cleanup callback of the minute runs before the
\* next one is due.
Advance ==
    /\ now < MaxTime
    /\ lastSweep = now
    /\ now' = now + 1
    /\ UNCHANGED <<tasks, workers, lastSeenOrder, connectedWorkers,
                   workerHeartbeats, arrays, taskQueue, tick, assign, holding,
                   failures, lastSweep, adminVars, regVars, callVars,
                   serverVars>>

\* The workers the cleanup finds inactive: an entry of workerHeartbeats
\* older than inactiveThreshold.
inactiveWorkers ==
    {w \in WorkerIds : /\ workerHeartbeats[w] # NoEntry
                       /\ now - workerHeartbeats[w] > inactiveThreshold}

\* WorkerManager.startPeriodicCleanup, one run of the callback: UPDATE
\* workers SET status = 'offline' for every inactive worker.  Its second
\* part removes the Map entries of workers offline for 24 hours, which no
\* worker is before MaxTime.
startPeriodicCleanup ==
    /\ lastSweep < now
    /\ lastSweep' = now
    /\ workers' = [w \in DOMAIN workers |->
                      IF w \in inactiveWorkers
                      THEN [workers[w] EXCEPT !.status = "offline"]
                      ELSE workers[w]]
    /\ UNCHANGED <<tasks, lastSeenOrder, connectedWorkers, workerHeartbeats,
                   arrays, taskQueue, tick, assign, holding, failures, now,
                   adminVars, regVars, callVars, serverVars>>

\* ------------------------------------------------------------------ POST /workers/connect
IdleConnect == [pc |-> "idle", used_count |-> 0]

\* The request arrives and awaits the SELECT of the connection code.
ConnectStart(r) ==
    /\ connect[r].pc = "idle"
    /\ connect' = [connect EXCEPT ![r].pc = "select"]
    /\ UNCHANGED <<connectionCode, codes, saasVars, adminVars, callVars,
                   serverVars>>

\* The SELECT ... WHERE expires_at > NOW() returned: no row answers 400
\* (invalid or expired); a row with `used_count >= max_uses` answers 400
\* (exhausted); otherwise the request goes on to its transaction.
ConnectCheck(r) ==
    /\ connect[r].pc = "select"
    /\ connect' = [connect EXCEPT
                      ![r].used_count = connectionCode.used_count,
                      ![r].pc = IF ~(connectionCode.expires_at > now)
                                THEN "invalid"
                                ELSE IF connectionCode.used_count
                                           >= connectionCode.max_uses
                                THEN "exhausted" ELSE "transaction"]
    /\ UNCHANGED <<connectionCode, codes, saasVars, adminVars, callVars,
                   serverVars>>

\* The id of the next row of the workers table (gen_random_uuid()).
newWorkerId ==
    CHOOSE n \in 1..(Cardinality(DOMAIN workers \cup WorkerIds) + 1) :
        /\ n \notin DOMAIN workers \cup WorkerIds
        /\ \A m \in DOMAIN workers \cup WorkerIds : m < n

\* The workers table after INSERT INTO workers ... 'offline'.
insertWorker ==
    [w \in DOMAIN workers \cup {newWorkerId} |->
        IF w = newWorkerId THEN NewWorker ELSE workers[w]]

\* BEGIN; INSERT INTO workers; UPDATE worker_connection_codes SET
\* used_count = used_count + 1; COMMIT; and the 201 response.
ConnectCommit(r) ==
    /\ connect[r].pc = "transaction"
    /\ workers' = insertWorker
    /\ lastSeenOrder' = <<newWorkerId>> \o lastSeenOrder
    /\ connectionCode' = [connectionCode EXCEPT !.used_count = @ + 1]
    /\ connect' = [connect EXCEPT ![r].pc = "created"]
    /\ UNCHANGED <<tasks, connectedWorkers, workerHeartbeats, arrays,
                   taskQueue, tick, assign, holding, failures, timeVars,
                   codes, adminVars, callVars, serverVars>>

\* workspaces.max_workers of the workspace: its plan has room for one
\* worker beside those it starts with.
max_workers == MaxWorkers + 1

\* POST /workers/connection-codes with the given max_uses: 400 when the
\* workspace has max_workers workers, otherwise a new code, which does not
\* expire before MaxTime (expires_in_hours is at least 1).
postConnectionCode(max_uses) ==
    /\ Len(codes) < MaxCodes
    /\ Cardinality(DOMAIN workers) < max_workers
    /\ codes' = Append(codes, [used_count |-> 0, max_uses |-> max_uses])
    /\ UNCHANGED <<connectionCode, connect, saasVars, adminVars, callVars,
                   serverVars>>

\* POST /workers/connect with generated code i, start to finish: the code
\* is found; 400 when it is used up, otherwise the worker is inserted and
\* the code's used_count incremented.
postConnect(i) ==
    /\ i \in DOMAIN codes
    /\ codes[i].used_count < codes[i].max_uses
    /\ workers' = insertWorker
    /\ lastSeenOrder' = <<newWorkerId>> \o lastSeenOrder
    /\ codes' = [codes EXCEPT ![i].used_count = @ + 1]
    /\ UNCHANGED <<tasks, connectedWorkers, workerHeartbeats, arrays,
                   taskQueue, tick, assign, holding, failures, timeVars,
                   connectionCode, connect, adminVars, callVars, serverVars>>

\* ------------------------------------------------------------------ admin-webapp
\* The admin-webapp server keeps its workers in memory
\* (admin-webapp/lib/workerManager.js) and is driven by the WebSocket
\* messages its MessageRouter dispatches.

\* MessageRouter.sendError(ws, errorMessage): one ERROR message to ws.
sendError(ws, errorMessage) ==
    /\ Len(errorsSent[ws]) < MaxErrors
    /\ errorsSent' = [errorsSent EXCEPT ![ws] = Append(@, errorMessage)]

\* `if (!worker) { this.sendError(ws, 'Worker not registered'); return; }`
notRegistered(ws) ==
    /\ sendError(ws, "Worker not registered")
    /\ UNCHANGED <<adminVars, tokenVars, credVars, saasVars, regVars,
                   callVars, clientVars>>

\* A WebSocket connects to the server.
openSocket(ws) ==
    /\ ws \notin openSockets
    /\ openSockets' = openSockets \cup {ws}
    /\ UNCHANGED <<registry, connections, issued, saasVars, regVars, callVars,
                   serverVars>>

\* WorkerManager.registerWorker(ws, token, workerInfo), reached from
\* REGISTER_WORKER with a non-empty token: a new id for every call.
registerWorker(ws) ==
    /\ ws \in openSockets
    /\ Len(registry) < MaxRegistrations
    /\ registry' = Append(registry, [status |-> "online", connection |-> ws,
                                     currentTask |-> NoId])
    /\ connections' = [connections EXCEPT ![ws] = Len(registry) + 1]
    /\ UNCHANGED <<openSockets, issued, saasVars, regVars, callVars, serverVars>>

\* WorkerManager.removeWorker(ws), on the socket's close.
removeWorker(ws) ==
    /\ ws \in openSockets
    /\ openSockets' = openSockets \ {ws}
    /\ registry' = IF connections[ws] # NoId
                   THEN [registry EXCEPT ![connections[ws]] =
                            [status |-> "offline", connection |-> NoId,
                             currentTask |-> NoId]]
                   ELSE registry
    /\ connections' = [connections EXCEPT ![ws] = NoId]
    /\ UNCHANGED <<issued, saasVars, regVars, callVars, serverVars>>

\* WorkerManager.updateWorkerStatus(workerId, status, currentTask = null):
\* the worker afterwards; currentTask is stored only when it is not null.
statusUpdated(worker, status, currentTask) ==
    IF currentTask # NoId
    THEN [worker EXCEPT !.status = status, !.currentTask = currentTask]
    ELSE [worker EXCEPT !.status = status]

\* MessageRouter.handleStatusUpdate(ws, {status, currentTask}).
handleStatusUpdate(ws, status, currentTask) ==
    /\ ws \in openSockets
    /\ IF connections[ws] = NoId
       THEN notRegistered(ws)
       ELSE /\ registry' = [registry EXCEPT ![connections[ws]] =
                               statusUpdated(@, status, currentTask)]
            /\ UNCHANGED <<connections, openSockets, issued, saasVars,
                           regVars, callVars, serverVars>>

\* MessageRouter.handleTaskComplete(ws, payload):
\* updateWorkerStatus(worker.id, 'online', null).
handleTaskComplete(ws) ==
    /\ ws \in openSockets
    /\ IF connections[ws] = NoId
       THEN notRegistered(ws)
       ELSE /\ registry' = [registry EXCEPT ![connections[ws]] =
                               statusUpdated(@, "online", NoId)]
            /\ UNCHANGED <<connections, openSockets, issued, saasVars,
                           regVars, callVars, serverVars>>

\* WorkerManager.assignTask(workerId, task): the worker afterwards.
assignTask(worker, task) ==
    IF worker.status = "online"
    THEN [worker EXCEPT !.currentTask = task, !.status = "busy"]
    ELSE worker

\* WorkerManager.broadcastTask(task): assignTask for every online worker.
broadcastTask(task) ==
    [id \in DOMAIN registry |-> assignTask(registry[id], task)]

\* MessageRouter.handleTaskAssignment with targetAll: a new task object,
\* broadcast.
handleTaskAssignmentAll ==
    /\ issued < MaxIssued
    /\ issued' = issued + 1
    /\ registry' = broadcastTask(issued + 1)
    /\ UNCHANGED <<connections, openSockets, saasVars, regVars, callVars,
                   serverVars>>

\* MessageRouter.handleTaskAssignment with a workerId: a new task object,
\* assignTask(workerId, taskObj).
handleTaskAssignmentOne(id) ==
    /\ issued < MaxIssued
    /\ id \in DOMAIN registry
    /\ issued' = issued + 1
    /\ registry' = [registry EXCEPT ![id] = assignTask(@, issued + 1)]
    /\ UNCHANGED <<connections, openSockets, saasVars, regVars, callVars,
                   serverVars>>

\* A REGISTER_WORKER payload without a token, or with a blank one.
EmptyToken == 0
\* The tokens a REGISTER_WORKER may present: none, a token the AdminServer
\* generated, or one it never generated.
PresentedTokens == EmptyToken..(MaxTokens + 1)

\* MessageRouter.handleWorkerRegistration(ws, {token, workerInfo}): a
\* missing or blank token is answered with an ERROR; any other token
\* registers the worker, "For MVP, we'll accept any non-empty token".
handleWorkerRegistration(ws, token) ==
    /\ ws \in openSockets
    /\ IF token = EmptyToken
       THEN /\ sendError(ws, "Invalid or missing token")
            /\ UNCHANGED <<adminVars, saasVars, regVars, callVars,
                           tokenVars, credVars, clientVars>>
       ELSE registerWorker(ws)

\* Ten minutes pass since the token was generated: Date.now() is past
\* AdminServer.tokenExpiry.
tokenExpires ==
    /\ ~tokenExpired
    /\ tokenExpired' = TRUE
    /\ UNCHANGED <<currentToken, errorsSent, credVars, adminVars, saasVars,
                   regVars, callVars, clientVars>>

\* AdminServer.setupTokenRotation, the 30 second callback once the token
\* has expired: a new token, valid for ten minutes.
setupTokenRotation ==
    /\ tokenExpired
    /\ currentToken < MaxTokens
    /\ currentToken' = currentToken + 1
    /\ tokenExpired' = FALSE
    /\ UNCHANGED <<errorsSent, credVars, adminVars, saasVars, regVars,
                   callVars, clientVars>>

\* ------------------------------------------------------------------ CredentialStore
\* Credential keys are strings of upper case letters and blanks; the store
\* holds one kind of value.
KeyChars == {"A", " "}
RawKeys == UNION {[1..n -> KeyChars] : n \in 0..MaxKeyLen}
Values == {"secret"}
RequestLists == UNION {[1..n -> RawKeys] : n \in 0..MaxRequested}

\* key.toLowerCase()
toLowerCase(key) == [i \in 1..Len(key) |-> IF key[i] = "A" THEN "a" ELSE key[i]]

\* key.trim(): without its leading and trailing blanks.
RECURSIVE trimStart(_)
trimStart(key) ==
    IF key # <<>> /\ Head(key) = " " THEN trimStart(Tail(key)) ELSE key

RECURSIVE trimEnd(_)
trimEnd(key) ==
    IF key # <<>> /\ key[Len(key)] = " "
    THEN trimEnd(SubSeq(key, 1, Len(key) - 1))
    ELSE key

trim(key) == trimEnd(trimStart(key))

\* key.replace(/\s+/g, '_'): every run of blanks becomes one underscore.
RECURSIVE replaceBlanks(_)
replaceBlanks(key) ==
    IF key = <<>> THEN <<>>
    ELSE IF Head(key) = " "
         THEN <<"_">> \o replaceBlanks(trimStart(key))
         ELSE <<Head(key)>> \o replaceBlanks(Tail(key))

\* key.toLowerCase().trim().replace(/\s+/g, '_')
normalizedKey(key) == replaceBlanks(trim(toLowerCase(key)))

\* CredentialStore.setCredential(key, value), from POST /api/credentials: a
\* blank key throws; otherwise the value is stored under the normalized key.
setCredential(key, value) ==
    /\ trim(key) # <<>>
    /\ credentials' =
          [k \in DOMAIN credentials \cup {normalizedKey(key)} |->
              IF k = normalizedKey(key) THEN value ELSE credentials[k]]
    /\ UNCHANGED <<credentialResponse, credentialPromise, tokenVars,
                   errorsSent, adminVars, saasVars, regVars, callVars, clientVars>>

\* CredentialStore.removeCredential(key), from DELETE /api/credentials/:key.
removeCredential(key) ==
    /\ normalizedKey(key) \in DOMAIN credentials
    /\ credentials' = [k \in DOMAIN credentials \ {normalizedKey(key)} |->
                          credentials[k]]
    /\ UNCHANGED <<credentialResponse, credentialPromise, tokenVars,
                   errorsSent, adminVars, saasVars, regVars, callVars, clientVars>>

\* Every stored credential, whatever was asked for.
getAllCredentials(requestedKeys) == credentials

\* CredentialStore.getCredentialsForWorker(requestedKeys = []).
getCredentialsForWorker(requestedKeys) ==
    IF Len(requestedKeys) = 0
    THEN credentials
    ELSE LET found == {normalizedKey(requestedKeys[i]) :
                          i \in 1..Len(requestedKeys)} \cap DOMAIN credentials
         IN [k \in found |-> credentials[k]]

\* MessageRouter.handleCredentialRequest(ws, {requestedKeys, requestId}): a
\* connection that is no registered worker gets an ERROR; a worker gets a
\* CREDENTIAL_RESPONSE with what the store returns and the request's id,
\* which stands for the request here.
handleCredentialRequest(ws, requestedKeys) ==
    /\ ws \in openSockets
    /\ IF connections[ws] = NoId
       THEN /\ sendError(ws, "Worker not registered")
            /\ UNCHANGED credVars
       ELSE /\ Len(credentialResponse) < MaxResponses
            /\ credentialResponse' = Append(credentialResponse,
                  [requestedKeys |-> requestedKeys,
                   credentials |-> getCredentialsForWorker(requestedKeys)])
            /\ UNCHANGED <<credentials, credentialPromise, errorsSent, clientVars>>
    /\ UNCHANGED <<tokenVars, adminVars, saasVars, regVars, callVars, clientVars>>

\* The worker's AdminConnection receives the CREDENTIAL_RESPONSE and
\* emits 'credentials-received': the onCredentials listener of a pending
\* requestCredentials call with that request's id clears the timeout and
\* resolves the promise with the credentials; a promise already rejected
\* stays rejected.
credentialsReceived ==
    /\ credentialResponse # <<>>
    /\ credentialResponse' = Tail(credentialResponse)
    /\ credentialPromise' =
          IF /\ credentialPromise.state = "pending"
             /\ credentialPromise.requestedKeys
                   = Head(credentialResponse).requestedKeys
          THEN [credentialPromise EXCEPT
                   !.state = "resolved",
                   !.credentials = Head(credentialResponse).credentials]
          ELSE credentialPromise
    /\ UNCHANGED <<credentials, tokenVars, errorsSent, adminVars, saasVars,
                   regVars, callVars, clientVars>>

\* AdminConnection.requestCredentials(requestedKeys) of the worker on
\* socket ws: send() writes the CREDENTIAL_REQUEST when the socket is open
\* and only logs otherwise; the promise is pending with a 5 second timeout.
requestCredentials(ws, requestedKeys) ==
    /\ credentialPromise.state = "idle"
    /\ credentialPromise' = [state |-> "pending",
                             requestedKeys |-> requestedKeys,
                             sent |-> ws \in openSockets,
                             credentials |-> <<>>, error |-> Null]
    /\ UNCHANGED <<credentials, credentialResponse, tokenVars, errorsSent,
                   adminVars, saasVars, regVars, callVars, clientVars>>

\* The timeout as it would be if it answered with an empty credential map.
resolveEmpty ==
    /\ credentialPromise.state = "pending"
    /\ credentialPromise' = [credentialPromise EXCEPT !.state = "resolved",
                                                      !.credentials = <<>>]
    /\ UNCHANGED <<credentials, credentialResponse, tokenVars, errorsSent,
                   adminVars, saasVars, regVars, callVars, clientVars>>

\* The 5 seconds pass with the promise pending: the setTimeout callback
\* rejects it with Error('Credential request timeout').
credentialRequestTimeout ==
    /\ credentialPromise.state = "pending"
    /\ credentialPromise' = [credentialPromise EXCEPT
                                !.state = "rejected",
                                !.error = "Credential request timeout"]
    /\ UNCHANGED <<credentials, credentialResponse, tokenVars, errorsSent,
                   adminVars, saasVars, regVars, callVars, clientVars>>

\* ------------------------------------------------------------------ worker client
\* The AdminConnection constructor: no WebSocket, not connected.  closing
\* holds the close codes of the sockets disconnect() closed whose 'close'
\* event is still to come; intentional records that disconnect() was called.
NewAdminConnection ==
    [ws |-> "null", isConnected |-> FALSE, reconnectAttempts |-> 0,
     timers |-> 0, closing |-> <<>>, intentional |-> FALSE]

\* The close code of a normal closure, and of a connection that ended
\* without a close frame.
NormalClosure == 1000
AbnormalClosure == 1006

\* AdminConnection.scheduleReconnect(): the attempt is counted and a timer
\* set; the timer's handle is not kept.
scheduleReconnect(conn) ==
    [conn EXCEPT !.reconnectAttempts = @ + 1, !.timers = @ + 1]

\* The 'close' handler of a socket, for the close code: not connected,
\* and a reconnect is scheduled `if (code !== 1000 &&
\* this.reconnectAttempts < this.maxReconnectAttempts)`.
onClose(conn, code) ==
    LET closed == [conn EXCEPT !.isConnected = FALSE]
    IN IF code # NormalClosure
          /\ conn.reconnectAttempts < MaxReconnectAttempts
       THEN scheduleReconnect(closed)
       ELSE closed

\* WorkerApp.connectToAdmin: a new AdminConnection, and its connect()
\* creates the WebSocket.
connectToAdmin ==
    /\ adminConnection = NewAdminConnection
    /\ adminConnection' = [adminConnection EXCEPT !.ws = "connecting"]
    /\ UNCHANGED <<workerStatus, taskCompleteSent, tokenVars, errorsSent,
                   credVars, adminVars, saasVars, regVars, callVars>>

\* The socket's 'open' event.
wsOpen ==
    /\ adminConnection.ws = "connecting"
    /\ adminConnection' = [adminConnection EXCEPT !.ws = "open",
                                                  !.isConnected = TRUE,
                                                  !.reconnectAttempts = 0]
    /\ UNCHANGED <<workerStatus, taskCompleteSent, tokenVars, errorsSent,
                   credVars, adminVars, saasVars, regVars, callVars>>

\* REGISTRATION_CONFIRMED arrives: the 'registered' handler of WorkerApp
\* sets the status to online.
workerRegistered ==
    /\ adminConnection.ws = "open"
    /\ workerStatus.status = "offline"
    /\ workerStatus' = [workerStatus EXCEPT !.status = "online"]
    /\ UNCHANGED <<adminConnection, taskCompleteSent, tokenVars, errorsSent,
                   credVars, adminVars, saasVars, regVars, callVars>>

\* The connection ends from the other side, or the connection attempt
\* fails: the 'close' event of this.ws with the given code.
wsClose(code) ==
    /\ adminConnection.ws \in {"connecting", "open"}
    /\ adminConnection.timers < MaxTimers
    /\ adminConnection' = [onClose(adminConnection, code) EXCEPT
                              !.ws = "closed"]
    /\ UNCHANGED <<workerStatus, taskCompleteSent, tokenVars, errorsSent,
                   credVars, adminVars, saasVars, regVars, callVars>>

\* AdminConnection.disconnect(): this.ws.close(1000, ...) and this.ws =
\* null.  An open socket closes with code 1000; closing a socket that is
\* still connecting aborts the handshake, which ends it with code 1006; a
\* closed socket has had its 'close' event.
disconnect(conn) ==
    [conn EXCEPT
        !.closing = IF conn.ws = "open" THEN Append(@, NormalClosure)
                    ELSE IF conn.ws = "connecting"
                    THEN Append(@, AbnormalClosure) ELSE @,
        !.ws = "null",
        !.isConnected = FALSE,
        !.intentional = TRUE]

\* WorkerApp.disconnectFromAdmin, the 'disconnect-from-admin' request of
\* the user: disconnect() and the local status.
disconnectFromAdmin ==
    /\ adminConnection # NewAdminConnection
    /\ ~adminConnection.intentional
    /\ adminConnection' = disconnect(adminConnection)
    /\ workerStatus' = [status |-> "offline", currentTask |-> NoId]
    /\ UNCHANGED <<taskCompleteSent, tokenVars, errorsSent,
                   credVars, adminVars, saasVars, regVars, callVars>>

\* The 'close' event of a socket that disconnect() closed.
wsClosing ==
    /\ adminConnection.closing # <<>>
    /\ adminConnection.timers < MaxTimers
    /\ adminConnection' =
          [onClose(adminConnection, Head(adminConnection.closing)) EXCEPT
              !.closing = Tail(adminConnection.closing)]
    /\ UNCHANGED <<workerStatus, taskCompleteSent, tokenVars, errorsSent,
                   credVars, adminVars, saasVars, regVars, callVars>>

\* The setTimeout callback of scheduleReconnect: `if (!this.isConnected &&
\* this.reconnectAttempts <= this.maxReconnectAttempts)` connect().  The
\* timer fires when no connection attempt is in progress.
reconnectTimer ==
    /\ adminConnection.timers > 0
    /\ adminConnection.ws # "connecting"
    /\ adminConnection' =
          IF /\ ~adminConnection.isConnected
             /\ adminConnection.reconnectAttempts <= MaxReconnectAttempts
          THEN [adminConnection EXCEPT !.timers = @ - 1, !.ws = "connecting"]
          ELSE [adminConnection EXCEPT !.timers = @ - 1]
    /\ UNCHANGED <<workerStatus, taskCompleteSent, tokenVars, errorsSent,
                   credVars, adminVars, saasVars, regVars, callVars>>

\* AdminConnection.send(message): written when this.ws is open, otherwise
\* only logged.  The TASK_COMPLETE messages sent afterwards.
sendTaskComplete(taskId) ==
    IF adminConnection.ws = "open"
    THEN [taskCompleteSent EXCEPT ![taskId] = @ + 1]
    ELSE taskCompleteSent

\* TASK_ASSIGNMENT arrives on the open socket: the 'task-assigned' handler
\* sets the local status to busy with the task and calls executeTask(task).
\* this.adminConnection is set, so executeTask calls
\* adminConnection.setTaskExecutionStatus(true), which AdminConnection does
\* not define: the TypeError takes it to its catch block, which sends
\* TASK_COMPLETE with success false and then calls
\* setTaskExecutionStatus(false), which throws again, before the local
\* status is set back.  Nothing of this awaits.
taskAssigned(taskId) ==
    /\ adminConnection.ws = "open"
    /\ taskCompleteSent[taskId] = 0
    /\ \A t \in Assignments : t < taskId => taskCompleteSent[t] > 0
    /\ workerStatus' = [status |-> "busy", currentTask |-> taskId]
    /\ taskCompleteSent' = sendTaskComplete(taskId)
    /\ UNCHANGED <<adminConnection, tokenVars, errorsSent,
                   credVars, adminVars, saasVars, regVars, callVars>>

\* ------------------------------------------------------------------ MessageRouter
\* The message types MessageRouter.handleMessage has a case for, and types
\* it has none for (the cases compare the type as sent).
MessageTypes ==
    {"ADMIN_CONNECT", "REGISTER_WORKER", "TASK_ASSIGNMENT", "STATUS_UPDATE",
     "EXECUTION_LOG", "CREDENTIAL_REQUEST", "TASK_COMPLETE", "HEARTBEAT",
     "GET_WORKERS"}
UnknownTypes == {"PING", "register_worker"}

\* A handler that only sends messages other than ERROR: ADMIN_CONNECT,
\* HEARTBEAT and GET_WORKERS write none of the state kept here.
repliesOnly == UNCHANGED vars

\* MessageRouter.handleExecutionLog(ws, payload): forwarded to the admins.
handleExecutionLog(ws) ==
    IF connections[ws] = NoId THEN notRegistered(ws) ELSE UNCHANGED vars

\* The handler of an unknown type as it would be if it closed the
\* connection after the ERROR.
handleMessageClosing(ws, type) ==
    /\ ws \in openSockets
    /\ type \in UnknownTypes
    /\ sendError(ws, "Unknown message type")
    /\ openSockets' = openSockets \ {ws}
    /\ UNCHANGED <<registry, connections, issued, tokenVars, credVars,
                   saasVars, regVars, callVars, clientVars>>

\* MessageRouter.handleMessage(ws, message) for a message of the given
\* type, with any payload; `default:` is sendError(ws, `Unknown message
\* type: ${type}`).
handleMessage(ws, type) ==
    /\ ws \in openSockets
    /\ CASE type = "REGISTER_WORKER" ->
               \E token \in PresentedTokens : handleWorkerRegistration(ws, token)
         [] type = "TASK_ASSIGNMENT" ->
               \/ handleTaskAssignmentAll
               \/ \E id \in 1..MaxRegistrations : handleTaskAssignmentOne(id)
         [] type = "STATUS_UPDATE" ->
               \E status \in {"online", "busy"}, currentTask \in 0..MaxIssued :
                   handleStatusUpdate(ws, status, currentTask)
         [] type = "EXECUTION_LOG" -> handleExecutionLog(ws)
         [] type = "CREDENTIAL_REQUEST" -> handleCredentialRequest(ws, <<>>)
         [] type = "TASK_COMPLETE" -> handleTaskComplete(ws)
         [] type \in {"ADMIN_CONNECT", "HEARTBEAT", "GET_WORKERS"} -> repliesOnly
         [] OTHER ->
               /\ sendError(ws, "Unknown message type")
               /\ UNCHANGED <<adminVars, tokenVars, credVars, saasVars,
                              regVars, callVars, clientVars>>

\* ------------------------------------------------------------------ specification
\* No requestCredentials call has been made.
IdlePromise == [state |-> "idle", requestedKeys |-> <<>>, sent |-> FALSE,
                credentials |-> <<>>, error |-> Null]

\* The AdminServer after construction: its first token, not yet expired,
\* and a CredentialStore whose data file holds no credential.
InitServer ==
    /\ currentToken = 1
    /\ tokenExpired = FALSE
    /\ errorsSent = [ws \in Sockets |-> <<>>]
    /\ credentials = <<>>
    /\ credentialResponse = <<>>
    /\ credentialPromise = IdlePromise
    /\ adminConnection = NewAdminConnection
    /\ workerStatus = [status |-> "offline", currentTask |-> NoId]
    /\ taskCompleteSent = [t \in Assignments |-> 0]

\* The servers after construction: empty tables apart from the registered
\* workers and one unused connection code.
Init ==
    /\ tasks = <<>>
    /\ workers = [w \in WorkerIds |-> NewWorker]
    /\ lastSeenOrder = [i \in 1..MaxWorkers |-> MaxWorkers + 1 - i]
    /\ connectedWorkers = {}
    /\ workerHeartbeats = [w \in WorkerIds |-> NoEntry]
    /\ arrays = [a \in ArrayIds |-> <<>>]
    /\ taskQueue = NoId
    /\ tick = [i \in Ticks |-> IdleTick]
    /\ assign = [c \in Callers |-> IdleAssign]
    /\ holding = [w \in WorkerIds |-> {}]
    /\ failures = [t \in TaskIds |-> 0]
    /\ now = 0
    /\ lastSweep = 0
    /\ connectionCode = [used_count |-> 0, max_uses |-> 1,
                         expires_at |-> CodeLifetime]
    /\ connect = [r \in Requests |-> IdleConnect]
    /\ codes = <<>>
    /\ cancelReq = {}
    /\ retry = [c \in RetryCalls |-> IdleRetry]
    /\ remove = [w \in WorkerIds |-> "idle"]
    /\ complete = [w \in WorkerIds |-> IdleComplete]
    /\ sockets = [w \in WorkerIds |-> NoSockets]
    /\ registry = <<>>
    /\ connections = [ws \in Sockets |-> NoId]
    /\ openSockets = {}
    /\ issued = 0
    /\ InitServer

\* The task lifecycle of tasks submitted with the default max_retries
\* (0): submissions, results, cancels, worker connections and status
\* reports, assignTaskToWorker calls.
Lifecycle ==
    \/ (Cardinality(DOMAIN tasks) < LifecycleTasks /\ createTask("normal", 0))
    \/ \E t \in TaskIds : cancelTask(t)
    \/ \E t \in TaskIds : putTaskCancel(t)
    \/ \E w \in WorkerIds : setWorkerOnline(w)
    \/ \E w \in WorkerIds : setWorkerOffline(w)
    \/ \E w \in WorkerIds, s \in {"online", "busy"} : updateWorkerStatus(w, s)
    \/ \E w \in WorkerIds, t \in TaskIds, s \in {"completed", "failed"} :
          task_complete(w, t, s)
    \/ \E w \in WorkerIds, t \in TaskIds : task_complete_again(w, t)
    \/ \E t \in TaskIds : ApiAssign(t)
    \/ ApiReturn
    \/ AssignQuery(Api)
    \/ AssignUpdateTask(Api)
    \/ AssignUpdateWorker(Api)

\* The task processor: setInterval callbacks, which overlap when one is
\* still awaiting the store as the next interval elapses.
Processor(i) ==
    \/ TickStart(i)
    \/ TickWorkers(i)
    \/ TickCheck(i)
    \/ AssignQuery(i)
    \/ TickAssigned(i)

Next == Lifecycle \/ Processor(1)

Spec == Init /\ [][Next]_vars

\* The admin-webapp server.
NextAdmin ==
    \/ \E ws \in Sockets : openSocket(ws)
    \/ \E ws \in Sockets : registerWorker(ws)
    \/ \E ws \in Sockets : removeWorker(ws)
    \/ \E ws \in Sockets, st \in {"online", "busy"}, ct \in 0..MaxIssued :
          handleStatusUpdate(ws, st, ct)
    \/ \E ws \in Sockets : handleTaskComplete(ws)
    \/ handleTaskAssignmentAll
    \/ \E id \in 1..MaxRegistrations : handleTaskAssignmentOne(id)

SpecAdmin == Init /\ [][NextAdmin]_vars

\* Concurrent POST /workers/connect requests against one connection code,
\* while the clock runs towards the code's expires_at.
NextReg ==
    \/ \E r \in Requests : ConnectStart(r)
    \/ \E r \in Requests : ConnectCheck(r)
    \/ \E r \in Requests : ConnectCommit(r)
    \/ Advance
    \/ startPeriodicCleanup

\* The connection code was created with any max_uses up to MaxUses.
InitReg ==
    /\ connectionCode \in [used_count : {0}, max_uses : 1..MaxUses,
                           expires_at : {CodeLifetime}]
    /\ cancelReq = {}
    /\ retry = [c \in RetryCalls |-> IdleRetry]
    /\ remove = [w \in WorkerIds |-> "idle"]
    /\ complete = [w \in WorkerIds |-> IdleComplete]
    /\ sockets = [w \in WorkerIds |-> NoSockets]
    /\ tasks = <<>>
    /\ workers = [w \in WorkerIds |-> NewWorker]
    /\ lastSeenOrder = [i \in 1..MaxWorkers |-> MaxWorkers + 1 - i]
    /\ connectedWorkers = {}
    /\ workerHeartbeats = [w \in WorkerIds |-> NoEntry]
    /\ arrays = [a \in ArrayIds |-> <<>>]
    /\ taskQueue = NoId
    /\ tick = [i \in Ticks |-> IdleTick]
    /\ assign = [c \in Callers |-> IdleAssign]
    /\ holding = [w \in WorkerIds |-> {}]
    /\ failures = [t \in TaskIds |-> 0]
    /\ now = 0
    /\ lastSweep = 0
    /\ connect = [r \in Requests |-> IdleConnect]
    /\ codes = <<>>
    /\ registry = <<>>
    /\ connections = [ws \in Sockets |-> NoId]
    /\ openSockets = {}
    /\ issued = 0
    /\ InitServer

SpecReg == InitReg /\ [][NextReg]_vars

\* The queue and the task processor: submissions of every priority over
\* the socket (createTask) and over REST (postTask), two overlapping
\* callbacks.
NextQueue ==
    \/ \E p \in Priorities :
          Cardinality(DOMAIN tasks) < LifecycleTasks /\ createTask(p, 0)
    \/ \E p \in Priorities :
          Cardinality(DOMAIN tasks) < LifecycleTasks /\ postTask(p, 0)
    \/ \E t \in TaskIds : cancelTask(t)
    \/ \E w \in WorkerIds : setWorkerOnline(w)
    \/ \E i \in Ticks : Processor(i)

SpecQueue == Init /\ [][NextQueue]_vars

\* One task submitted with max_retries = MaxRetries, and retryTask calls.
NextRetry ==
    \/ (tasks = <<>> /\ createTask("normal", MaxRetries))
    \/ \E t \in TaskIds : retryTask(t)
    \/ \E w \in WorkerIds : setWorkerOnline(w)
    \/ \E w \in WorkerIds : setWorkerOffline(w)
    \/ \E w \in WorkerIds, t \in TaskIds, s \in {"completed", "failed"} :
          task_complete(w, t, s)
    \/ \E t \in TaskIds : ApiAssign(t)
    \/ ApiReturn
    \/ AssignQuery(Api)
    \/ AssignUpdateTask(Api)
    \/ AssignUpdateWorker(Api)
    \/ Processor(1)

SpecRetry == Init /\ [][NextRetry]_vars

\* Concurrent retryTask calls, each with its three awaits, for one task
\* submitted with max_retries = MaxRetries, and the task processor.
NextRetryCalls ==
    \/ (tasks = <<>> /\ createTask("normal", MaxRetries))
    \/ \E c \in RetryCalls, t \in TaskIds : RetrySelect(c, t)
    \/ \E c \in RetryCalls : RetryUpdate(c)
    \/ \E c \in RetryCalls : RetryEnqueue(c)
    \/ \E w \in WorkerIds : setWorkerOnline(w)
    \/ Processor(1)

SpecRetryCalls == Init /\ [][NextRetryCalls]_vars

\* Heartbeats and the periodic cleanup, with one task.
NextLive ==
    \/ (tasks = <<>> /\ createTask("normal", 0))
    \/ \E w \in WorkerIds : setWorkerOnline(w)
    \/ \E w \in WorkerIds : setWorkerOffline(w)
    \/ \E w \in WorkerIds : updateWorkerStatus(w, "online")
    \/ \E w \in WorkerIds, t \in TaskIds, s \in {"completed", "failed"} :
          task_complete(w, t, s)
    \/ \E t \in TaskIds : ApiAssign(t)
    \/ ApiReturn
    \/ AssignQuery(Api)
    \/ AssignUpdateTask(Api)
    \/ AssignUpdateWorker(Api)
    \/ Advance
    \/ startPeriodicCleanup

SpecLive == Init /\ [][NextLive]_vars

\* Worker status reports over the socket and over REST, with the clock.
NextStatus ==
    \/ \E w \in WorkerIds : setWorkerOnline(w)
    \/ \E w \in WorkerIds : setWorkerOffline(w)
    \/ \E w \in WorkerIds, s \in {"offline", "online", "busy", "error"} :
          updateWorkerStatus(w, s)
    \/ \E w \in WorkerIds, s \in {"offline", "online", "busy", "error"} :
          putWorkerStatus(w, s)
    \/ Advance
    \/ startPeriodicCleanup

SpecStatus == Init /\ [][NextStatus]_vars

\* The cancel paths against results and worker loss: TaskManager.cancelTask
\* and the PUT .../cancel request with its two awaits.
NextCancel ==
    \/ (Cardinality(DOMAIN tasks) < LifecycleTasks /\ createTask("normal", 0))
    \/ \E t \in TaskIds : cancelTask(t)
    \/ \E t \in TaskIds : PutCancelSelect(t)
    \/ \E t \in TaskIds : PutCancelUpdate(t)
    \/ \E w \in WorkerIds : setWorkerOnline(w)
    \/ \E w \in WorkerIds : setWorkerOffline(w)
    \/ \E w \in WorkerIds, t \in TaskIds, s \in {"completed", "failed"} :
          task_complete(w, t, s)
    \/ \E t \in TaskIds : ApiAssign(t)
    \/ ApiReturn
    \/ AssignQuery(Api)
    \/ AssignUpdateTask(Api)
    \/ AssignUpdateWorker(Api)

SpecCancel == Init /\ [][NextCancel]_vars

\* Task results from the worker a task is assigned to and from other
\* worker connections.
NextResults ==
    \/ (Cardinality(DOMAIN tasks) < LifecycleTasks /\ createTask("normal", 0))
    \/ \E w \in WorkerIds : setWorkerOnline(w)
    \/ \E w \in WorkerIds : setWorkerOffline(w)
    \/ \E w \in WorkerIds, t \in TaskIds, s \in {"completed", "failed"} :
          task_complete(w, t, s)
    \/ \E w \in WorkerIds, t \in TaskIds, s \in {"completed", "failed"} :
          task_complete_other(w, t, s)
    \/ \E t \in TaskIds : ApiAssign(t)
    \/ ApiReturn
    \/ AssignQuery(Api)
    \/ AssignUpdateTask(Api)
    \/ AssignUpdateWorker(Api)

SpecResults == Init /\ [][NextResults]_vars

\* Worker removal: DELETE /workers/:id beside one task's submission,
\* assignments, results and retry, and worker connections.
NextRemove ==
    \/ (tasks = <<>> /\ createTask("normal", 1))
    \/ \E w \in WorkerIds : setWorkerOnline(w)
    \/ \E w \in WorkerIds : setWorkerOffline(w)
    \/ \E w \in WorkerIds, t \in TaskIds, s \in {"completed", "failed"} :
          task_complete(w, t, s)
    \/ \E t \in TaskIds : retryTask(t)
    \/ \E t \in TaskIds : ApiAssign(t)
    \/ ApiReturn
    \/ AssignQuery(Api)
    \/ AssignUpdateTask(Api)
    \/ AssignUpdateWorker(Api)
    \/ \E w \in WorkerIds : deleteWorkerCancel(w)
    \/ \E w \in WorkerIds : deleteWorkerDelete(w)

SpecRemove == Init /\ [][NextRemove]_vars

\* Worker registration on the admin server: REGISTER_WORKER messages with
\* any token while the AdminServer rotates its token.
NextTokens ==
    \/ \E ws \in Sockets : openSocket(ws)
    \/ \E ws \in Sockets : removeWorker(ws)
    \/ \E ws \in Sockets, token \in PresentedTokens :
          handleWorkerRegistration(ws, token)
    \/ tokenExpires
    \/ setupTokenRotation

SpecTokens == Init /\ [][NextTokens]_vars

\* The messages of a worker connection: task_complete, handled in two
\* steps, beside status_update, for one task.
NextOrder ==
    \/ (tasks = <<>> /\ createTask("normal", 0))
    \/ \E w \in WorkerIds : setWorkerOnline(w)
    \/ \E w \in WorkerIds, s \in {"online", "busy"} : updateWorkerStatus(w, s)
    \/ \E w \in WorkerIds, t \in TaskIds, s \in {"completed", "failed"} :
          CompleteUpdateTask(w, t, s)
    \/ \E w \in WorkerIds : CompleteUpdateWorker(w)
    \/ \E t \in TaskIds : ApiAssign(t)
    \/ ApiReturn
    \/ AssignQuery(Api)
    \/ AssignUpdateTask(Api)
    \/ AssignUpdateWorker(Api)

SpecOrder == Init /\ [][NextOrder]_vars

\* The credential store under its REST routes, and the credential
\* requests of one connection.
NextCredentials ==
    \/ openSocket(1)
    \/ (registry = <<>> /\ registerWorker(1))
    \/ credentialsReceived
    \/ \E key \in RawKeys, value \in Values : setCredential(key, value)
    \/ \E key \in RawKeys : removeCredential(key)
    \/ \E requestedKeys \in RequestLists :
          handleCredentialRequest(1, requestedKeys)

SpecCredentials == Init /\ [][NextCredentials]_vars

\* The admin server under the messages of its WebSockets, of known and of
\* unknown types.
NextMessages ==
    \/ \E ws \in Sockets : openSocket(ws)
    \/ \E ws \in Sockets : removeWorker(ws)
    \/ \E ws \in Sockets, type \in MessageTypes \cup UnknownTypes :
          handleMessage(ws, type)
    \/ credentialsReceived

SpecMessages == Init /\ [][NextMessages]_vars

\* The worker limit: connection codes are generated and used, beside
\* requests that use the code the workspace starts with.
NextLimit ==
    \/ \E max_uses \in 1..MaxUses : postConnectionCode(max_uses)
    \/ \E i \in 1..MaxCodes : postConnect(i)
    \/ \E r \in Requests : ConnectStart(r)
    \/ \E r \in Requests : ConnectCheck(r)
    \/ \E r \in Requests : ConnectCommit(r)

SpecLimit == Init /\ [][NextLimit]_vars

\* One credential request of a worker, from the call to its outcome: the
\* server handles the request if it was sent, and the response or the
\* timeout comes first.
NextTimeout ==
    \/ openSocket(1)
    \/ (registry = <<>> /\ registerWorker(1))
    \/ \E key \in RawKeys, value \in Values : setCredential(key, value)
    \/ \E requestedKeys \in RequestLists : requestCredentials(1, requestedKeys)
    \/ (/\ credentialPromise.state # "idle"
        /\ credentialPromise.sent
        /\ handleCredentialRequest(1, credentialPromise.requestedKeys))
    \/ credentialsReceived
    \/ credentialRequestTimeout

SpecTimeout == Init /\ [][NextTimeout]_vars

\* The priorities of the three tasks of the submission scenario, in the
\* order they are submitted.
ScenarioPriorities == <<"low", "urgent", "normal">>

\* Every task of the scenario has been submitted.
ScenarioSubmitted == Cardinality(DOMAIN tasks) = Len(ScenarioPriorities)

\* The next createTask call of the scenario.
submitScenario ==
    /\ ~ScenarioSubmitted
    /\ createTask(ScenarioPriorities[Cardinality(DOMAIN tasks) + 1], 0)

\* The scenario: three tasks are submitted to the empty queue, worker 1
\* connects and is the one eligible worker (worker 2 reports statuses that
\* make it no candidate), and the task processor's callbacks run once the
\* tasks are queued.
NextScenario ==
    \/ submitScenario
    \/ setWorkerOnline(1)
    \/ \E s \in {"offline", "busy", "error"} : putWorkerStatus(2, s)
    \/ \E i \in Ticks : ScenarioSubmitted /\ Processor(i)

\* setInterval runs the callback every 5 seconds and the store answers
\* every query, so a callback that can take a step takes it.
SpecScenario ==
    /\ Init
    /\ [][NextScenario]_vars
    /\ \A i \in Ticks : WF_vars(ScenarioSubmitted /\ Processor(i))

\* Workers that connect and then send their heartbeats over REST, beside
\* the clock and the periodic cleanup.
NextHeartbeat ==
    \/ \E w \in WorkerIds : setWorkerOnline(w)
    \/ \E w \in WorkerIds : postHeartbeat(w)
    \/ Advance
    \/ startPeriodicCleanup

SpecHeartbeat == Init /\ [][NextHeartbeat]_vars

\* Reconnections: a worker connects again while an earlier socket of it is
\* open, and the sockets disconnect in any order, beside one task's
\* submission and assignment.
NextReconnect ==
    \/ (tasks = <<>> /\ createTask("normal", 0))
    \/ \E w \in WorkerIds : ~sockets[w].unlisted /\ setWorkerOnline(w)
    \/ \E w \in WorkerIds : setWorkerOffline(w)
    \/ \E w \in WorkerIds : reconnect(w)
    \/ \E w \in WorkerIds : staleDisconnect(w)
    \/ \E w \in WorkerIds : unlistedDisconnect(w)
    \/ \E t \in TaskIds : ApiAssign(t)
    \/ ApiReturn
    \/ AssignQuery(Api)
    \/ AssignUpdateTask(Api)
    \/ AssignUpdateWorker(Api)

SpecReconnect == Init /\ [][NextReconnect]_vars

\* The worker client through the life of one AdminConnection.
NextClient ==
    \/ connectToAdmin
    \/ wsOpen
    \/ workerRegistered
    \/ \E code \in {NormalClosure, AbnormalClosure} : wsClose(code)
    \/ disconnectFromAdmin
    \/ wsClosing
    \/ reconnectTimer
    \/ \E taskId \in Assignments : taskAssigned(taskId)

SpecClient == Init /\ [][NextClient]_vars

\* One task of any priority is submitted through createTask, workers
\* connect and stay connected, nothing is cancelled, and the task
\* processor's callbacks run.
NextProcessor ==
    \/ \E p \in Priorities : tasks = <<>> /\ createTask(p, 0)
    \/ \E w \in WorkerIds : setWorkerOnline(w)
    \/ \E i \in Ticks : Processor(i)

\* setInterval runs the callback every 5 seconds and the store answers
\* every query, so a callback that can take a step takes it.
SpecProcessor ==
    /\ Init
    /\ [][NextProcessor]_vars
    /\ \A i \in Ticks : WF_vars(Processor(i))

\* The queue and the task processor with a store whose pending check may
\* reject: submissions over the socket, cancellations, workers connecting,
\* two overlapping callbacks.
NextRequeue ==
    \/ \E p \in Priorities :
          Cardinality(DOMAIN tasks) < LifecycleTasks /\ createTask(p, 0)
    \/ \E t \in TaskIds : cancelTask(t)
    \/ \E w \in WorkerIds : setWorkerOnline(w)
    \/ \E i \in Ticks : Processor(i)
    \/ \E i \in Ticks : TickCheckError(i)

SpecRequeue == Init /\ [][NextRequeue]_vars

\* ------------------------------------------------------------------ claims
\* The tasks of the table that are assigned to worker w and in flight.
InFlightTasks(w) ==
    {t \in DOMAIN tasks :
        tasks[t].assigned_worker_id = w /\ tasks[t].status \in InFlight}

C2_OneWorkerPerTask ==
    \A a, b \in DOMAIN registry :
        (/\ a # b
         /\ registry[a].status = "busy"
         /\ registry[b].status = "busy"
         /\ registry[a].currentTask # NoId)
        => registry[a].currentTask # registry[b].currentTask

\* The calls that created a worker (201), and those that were answered.
Created == {r \in Requests : connect[r].pc = "created"}
Answered == {r \in Requests : connect[r].pc \in {"created", "exhausted"}}

Min(a, b) == IF a <= b THEN a ELSE b

\* C3: of concurrent POST /workers/connect calls against one connection
\* code with max_uses = N exactly N create a worker (all of them when
\* fewer than N were made), and every other call is rejected.
C3_ExactlyMaxUsesSucceed ==
    /\ Cardinality(Created) <= connectionCode.max_uses
    /\ Answered = Requests =>
          Cardinality(Created) = Min(NumRequests, connectionCode.max_uses)

LiveQueue == IF taskQueue = NoId THEN <<>> ELSE arrays[taskQueue]

\* C6: the queue pops in priority order, urgent before high before normal
\* before low: no queued task stands before one of a higher priority.
C6_PriorityOrder ==
    \A i, j \in 1..Len(LiveQueue) :
        i < j => priorityOrder(LiveQueue[i].priority)
                    <= priorityOrder(LiveQueue[j].priority)

\* C7: within one priority band the queue is FIFO: queued tasks of equal
\* priority stand in the order they were enqueued (task ids are issued in
\* submission order).
C7_FifoWithinBand ==
    \A i, j \in 1..Len(LiveQueue) :
        (i < j /\ LiveQueue[i].priority = LiveQueue[j].priority)
        => LiveQueue[i].id < LiveQueue[j].id

WorkerStatuses == {"offline", "online", "busy", "error"}
Edge(from, to) ==
    \/ from = to
    \/ to = "offline"
    \/ from = "offline" /\ to = "online"
    \/ from = "online" /\ to = "busy"
    \/ from = "busy" /\ to = "online"
    \/ from \in {"online", "busy"} /\ to = "error"

\* C13: a status request (the status_update message, PUT /workers/:id/status)
\* for a transition that is not an edge of the worker state machine, such
\* as offline to busy, is rejected and leaves the worker's status
\* unchanged: a step of these handlers changes a status only along an edge.
C13_SetStatusValidated ==
    [][(\E w \in WorkerIds, s \in WorkerStatuses :
            updateWorkerStatus(w, s) \/ putWorkerStatus(w, s))
       => \A w \in WorkerIds :
             Edge(workers[w].status, workers'[w].status)]_vars

C15_ResultOnlyFromAssignedWorker ==
    [][(\E w \in WorkerIds, t \in TaskIds, s \in {"completed", "failed"} :
            task_complete_other(w, t, s))
       => (tasks' = tasks /\ workers' = workers)]_vars

\* The task processor callbacks that have started and not returned.
TicksInFlight == {i \in Ticks : tick[i].pc # "idle"}

\* C16: at most one execution of the task processor callback is in flight
\* at any time.
C16_SingleTickInFlight ==
    Cardinality(TicksInFlight) <= 1

\* C17: a connection code is never consumed at or after its expires_at: a
\* step that increments used_count (and creates the worker) happens while
\* the clock is before expires_at.
C17_NotConsumedAfterExpiry ==
    [][connectionCode'.used_count > connectionCode.used_count
       => now < connectionCode.expires_at]_vars

\* C18: for every task retry_count never exceeds max_retries, whatever
\* retries are requested, concurrent retryTask calls included.
C18_RetryCountWithinBudget ==
    \A t \in DOMAIN tasks : tasks[t].retry_count <= tasks[t].max_retries

\* The tasks the queue accounts for: those in the queue the Map holds and
\* those a running task processor callback has shifted and not put back.
Queued ==
    {LiveQueue[k].id : k \in 1..Len(LiveQueue)}
        \cup {tick[i].task.id : i \in TicksInFlight}

\* C19: the in-memory queue is a complete view of the pending tasks: every
\* task whose stored status is pending is in the queue, whichever
\* submission path created it.
C19_QueueHoldsEveryPendingTask ==
    \A t \in DOMAIN tasks : tasks[t].status = "pending" => t \in Queued

\* C20: once the periodic cleanup has run, no worker it finds timed out is
\* left in the connection registry: connectedWorkers and workerHeartbeats
\* hold no worker whose heartbeat is older than the timeout.
C20_TimedOutWorkerRemovedFromRegistry ==
    lastSweep = now =>
        \A w \in WorkerIds :
            (w \in connectedWorkers \/ workerHeartbeats[w] # NoEntry)
            => ~(now - workerHeartbeats[w] > inactiveThreshold)

C22_OnlyCurrentTokenRegisters ==
    [][\A ws \in Sockets, token \in PresentedTokens :
          (handleWorkerRegistration(ws, token)
             /\ (token # currentToken \/ tokenExpired))
          => registry' = registry]_vars

\* C23: REGISTER handling is idempotent: however often a worker sends
\* REGISTER, on one connection or after reconnecting, no earlier record of
\* it is left online or busy: every record of the registry that is online
\* or busy is the one record its connection is registered as.
C23_RegisterIdempotent ==
    \A id \in DOMAIN registry :
        registry[id].status \in {"online", "busy"}
            => /\ registry[id].connection # NoId
               /\ connections[registry[id].connection] = id

Eligible(c) == getAvailableWorkers(assign[c].task.workspace_id)

Requested(requestedKeys) ==
    {requestedKeys[i] : i \in 1..Len(requestedKeys)}

C28_UnknownTypeOnlyAnswered ==
    [][\A ws \in Sockets, type \in UnknownTypes :
          handleMessage(ws, type)
          => /\ errorsSent' = [errorsSent EXCEPT
                                  ![ws] = Append(@, "Unknown message type")]
             /\ ws \in openSockets'
             /\ UNCHANGED <<registry, connections, openSockets, issued,
                            credentials, credentialResponse, tasks,
                            workers>>]_vars

\* A registered worker that is busy with a task has been told that its last
\* message was of unknown type, and its connection is open.
C28_Witness ==
    \E ws \in openSockets :
        /\ connections[ws] # NoId
        /\ registry[connections[ws]].status = "busy"
        /\ registry[connections[ws]].currentTask # NoId
        /\ errorsSent[ws] # <<>>
        /\ errorsSent[ws][Len(errorsSent[ws])] = "Unknown message type"

\* C29: the number of workers registered in the workspace never exceeds
\* the workspace's max_workers, whatever connection codes are generated
\* and whatever registrations are made.
C29_WorkerLimit ==
    Cardinality(DOMAIN workers) <= max_workers

ScenarioRank(t) == priorityOrder(tasks[t].priority)

\* C31: three tasks submitted with priorities low, urgent, normal, in that
\* order, to an empty queue with one eligible worker are assigned in the
\* order urgent, normal, low: no task is assigned while one that comes
\* before it in that order is still pending, and with the three tasks
\* queued and the worker online the urgent task gets assigned.
C31_ScenarioAssignmentOrder ==
    /\ [][\A t \in DOMAIN tasks :
             (tasks'[t].status = "assigned" /\ tasks[t].status # "assigned")
             => \A u \in DOMAIN tasks :
                   ScenarioRank(u) < ScenarioRank(t)
                   => tasks[u].status # "pending"]_vars
    /\ (ScenarioSubmitted /\ workers[1].status = "online")
          ~> (\E t \in DOMAIN tasks :
                 tasks[t].priority = "urgent" /\ tasks[t].status = "assigned")

\* C32: a worker that keeps sending heartbeats more often than the timeout
\* threshold is never marked offline by the liveness sweep: a run of the
\* periodic cleanup leaves the status of every worker whose last heartbeat
\* is no older than the threshold as it is.
C32_HeartbeatingWorkerNotSwept ==
    [][startPeriodicCleanup
       => \A w \in DOMAIN workers :
             (/\ workers[w].last_heartbeat # NullTime
              /\ now - workers[w].last_heartbeat <= inactiveThreshold)
             => workers'[w].status = workers[w].status]_vars

\* C33: when a worker reconnects on a new socket before the disconnect of
\* its old socket is processed, the late disconnect of the old socket does
\* not take the worker offline, does not remove the new socket from the
\* registry and does not fail the worker's tasks.
C33_LateDisconnectHarmless ==
    [][\A w \in WorkerIds :
          (/\ w \in connectedWorkers
           /\ sockets[w].stale > 0
           /\ sockets'[w].stale < sockets[w].stale)
          => /\ workers'[w].status = workers[w].status
             /\ w \in connectedWorkers'
             /\ tasks' = tasks]_vars

C35_OnlineHasNoCurrentTask ==
    [][/\ \A id \in DOMAIN registry' :
             registry'[id].status = "online"
             => registry'[id].currentTask = NoId
       /\ \A ws \in Sockets :
             (/\ handleTaskComplete(ws)
              /\ connections[ws] # NoId
              /\ registry[connections[ws]].status = "busy")
             => /\ registry'[connections[ws]].status = "online"
                /\ registry'[connections[ws]].currentTask = NoId]_vars

\* C36: after the worker client calls disconnect() intentionally, that
\* AdminConnection never opens a connection again on its own, even if a
\* reconnect timer was already scheduled when disconnect() was called: once
\* disconnect() has been called no step creates a WebSocket.
C36_NoReconnectAfterDisconnect ==
    [][adminConnection.intentional
       => adminConnection'.ws \notin {"connecting", "open"}]_vars

\* C37: for every task assignment the worker client receives, it sends
\* exactly one TASK_COMPLETE for that task id and afterwards its local
\* status is online with no current task.
C37_OneTaskCompleteThenOnline ==
    [][\A taskId \in Assignments :
          taskAssigned(taskId)
          => /\ taskCompleteSent'[taskId] = 1
             /\ workerStatus'.status = "online"
             /\ workerStatus'.currentTask = NoId]_vars

\* C38: retryTask re-opens only a task whose status is failed: called on a
\* task in any other status (pending, assigned, running, completed,
\* cancelled) it is rejected and changes neither the task, its retry count
\* nor the queue.
C38_RetryOnlyFailed ==
    [][\A t \in DOMAIN tasks :
          (retryTask(t) /\ tasks[t].status # "failed")
          => UNCHANGED <<tasks, arrays, taskQueue>>]_vars

\* C39: under fair scheduling of ticks, a task submitted through createTask
\* is eventually assigned if a worker of the same tenant stays online and
\* connected and the task is not cancelled.
C39_SubmittedTaskEventuallyAssigned ==
    \A t \in TaskIds :
        (/\ t \in DOMAIN tasks
         /\ \E w \in connectedWorkers : workers[w].status = "online")
        ~> (t \in DOMAIN tasks /\ tasks[t].status = "assigned")

\* C40: a still-pending task that a task processor callback has shifted
\* from the queue and has not assigned is in the queue the Map holds when
\* that callback returns, also when another callback or a createTask runs
\* concurrently.
C40_UnassignedTaskBackInLiveQueue ==
    [][\A i \in Ticks :
          (/\ tick[i].pc \in {"check", "assign"}
           /\ tick'[i].pc = "idle"
           /\ tasks'[tick[i].task.id].status = "pending")
          => \E k \in 1..Len(LiveQueue') :
                LiveQueue'[k].id = tick[i].task.id]_vars
====
